---------------------------- MODULE Spec2Model ----------------------------
(***************************************************************************)
(* A model of react_frontend/src/App.js: the contact-form session, the     *)
(* reveal-on-scroll controller with the reduced-motion tracker, and the    *)
(* scroll spy.                                                             *)
(*                                                                         *)
(* Strings are sequences of one-character strings.  A React state hook is  *)
(* one variable holding the value the next render returns.  A handler of a *)
(* discrete event (input, blur, submit, click) and the re-render React     *)
(* flushes at its end are one step.  A state update made outside such a    *)
(* handler (an observer callback, a media-query or scroll listener, an     *)
(* effect) is rendered by a later step, and other callbacks may run in     *)
(* between.  A commit and the effects it runs are one step.                *)
(*                                                                         *)
(* The scroll spy's IntersectionObserver is the set of targets it observes *)
(* and the set of targets with an entry queued; a delivery hands the       *)
(* callback one entry per queued target, with the geometry of the moment.  *)
(* The reveal observer's queue holds the entries themselves, each with the *)
(* isIntersecting of the moment it was queued.                             *)
(*                                                                         *)
(* The parts are checked as specifications over the same variables:        *)
(* SpecForm (the form session), SpecValidate (validateContact as a         *)
(* function), SpecReveal, SpecRevealFair and SpecRevealDelivered (the      *)
(* tracker and the reveal controller), SpecSpy, SpecSpyDegraded and        *)
(* SpecSpySettle (the scroll spy, on the page of App, on pages with ids or *)
(* elements missing, and on a page that may come to rest), SpecLife (the   *)
(* effects' subscriptions from mount to unmount) and SpecMenu (the mobile  *)
(* menu and the resize listener).                                          *)
(***************************************************************************)
EXTENDS Integers, Sequences, FiniteSets, TLC

VARIABLES
    contactValues,      \* useState {name, email, message}          (App.js 227)
    contactTouched,     \* useState {name, email, message: bool}    (App.js 232)
    contactSubmitted,   \* useState bool                            (App.js 237)
    formView,           \* what the last render put on the page, and its closure
    formLast,           \* history: the last form handler and the state it ran in
    validateInput,      \* the values object handed to validateContact
    validateOutput,     \* whether the call has returned, and the errors object
    hasIO,              \* "IntersectionObserver" in window
    hasMatchMedia,      \* window.matchMedia exists
    spyIds,             \* (sectionIds || []).filter(Boolean) of useScrollSpy
    domIds,             \* the ids document.getElementById finds an element for
    scrolling,          \* environment: the page may still scroll
    envReduced,         \* environment: (prefers-reduced-motion: reduce) matches
    mqListener,         \* the tracker's change listener is registered
    mqPending,          \* a change event is waiting for the listener
    phase,              \* "initial" (rendered, effects not yet run), "mounted"
                        \* or "unmounted"
    mobileOpen,         \* useState(false) of the mobile menu       (App.js 225)
    innerWidth,         \* environment: window.innerWidth
    resizePending,      \* a resize event is waiting for the listener
    menuLast,           \* history: the last step of the menu, and mobileOpen
                        \* before it
    live,               \* per effect: the subscriptions it has registered and
                        \* not released
    cleanup,            \* per effect: its last run returned a cleanup function
    reduced,            \* useState(false) of usePrefersReducedMotion (App.js 73)
    reducedMotion,      \* the value the last render passed to useRevealOnScroll
    revealed,           \* per [data-reveal] element: classList has "is-revealed"
    revObserved,        \* the elements the live reveal observer observes
    revQueue,           \* the reveal observer's entries waiting for delivery
    revIntersecting,    \* environment: the element meets the reveal band
    revNotified,        \* history: some intersection notification was delivered
    revLast,            \* history: the last step of the reveal controller
    scrollY,            \* environment: window.scrollY
    activeId,           \* useState(sectionIds[0] || "home") of useScrollSpy (App.js 96)
    latestActive,       \* latestActive.current                        (App.js 97)
    spyObserved,        \* the section ids whose elements the live spy observer observes
    spyQueue,           \* observed sections with an entry waiting for delivery
    scrollListener,     \* the fallback's scroll listener is registered
    scrollPending,      \* a scroll event is waiting for the listener
    spySignalled,       \* history: the resolver has evaluated the viewport
    spyLast             \* history: the last step of the scroll spy, the entries
                        \* it delivered, whether latestActive was up to date,
                        \* what it selected and whether it called setActiveId

formVars == <<contactValues, contactTouched, contactSubmitted, formView, formLast>>

validateVars == <<validateInput, validateOutput>>

envVars == <<hasIO, hasMatchMedia, spyIds, domIds, scrolling>>

motionVars == <<envReduced, mqListener, mqPending, reduced, reducedMotion>>

revealVars ==
    <<revealed, revObserved, revQueue, revIntersecting, revNotified, revLast>>

spyVars ==
    <<scrollY, activeId, latestActive, spyObserved, spyQueue, scrollListener,
      scrollPending, spySignalled, spyLast>>

lifeVars == <<live, cleanup>>

menuVars == <<mobileOpen, innerWidth, resizePending, menuLast>>

vars ==
    <<formVars, validateVars, envVars, menuVars, phase, lifeVars, motionVars,
      revealVars, spyVars>>

----------------------------------------------------------------------------
(* Strings *)

Rep(c, n) == [i \in 1..n |-> c]

IsSpace(c) == c = " "

RECURSIVE trimStart(_)
trimStart(s) == IF s # <<>> /\ IsSpace(Head(s)) THEN trimStart(Tail(s)) ELSE s

RECURSIVE trimEnd(_)
trimEnd(s) ==
    IF s # <<>> /\ IsSpace(s[Len(s)]) THEN trimEnd(SubSeq(s, 1, Len(s) - 1)) ELSE s

trim(s) == trimEnd(trimStart(s))

\* [^\s@]
NotSpaceAt(c) == ~IsSpace(c) /\ c # "@"

\* A pattern whose last part admits "@": /^[^\s@]+@[^\s@]+\.[^\s]+$/
EmailRegexTestLooseTail(s) ==
    \E i \in 1..Len(s), j \in 1..Len(s) :
        /\ 1 < i /\ i + 1 < j /\ j < Len(s)
        /\ s[i] = "@"
        /\ s[j] = "."
        /\ \A k \in 1..(j - 1) : k # i => NotSpaceAt(s[k])
        /\ \A k \in (j + 1)..Len(s) : ~IsSpace(s[k])

\* /^[^\s@]+@[^\s@]+\.[^\s@]+$/.test(s)
EmailRegexTest(s) ==
    \E i \in 1..Len(s), j \in 1..Len(s) :
        /\ 1 < i /\ i + 1 < j /\ j < Len(s)
        /\ s[i] = "@"
        /\ s[j] = "."
        /\ \A k \in 1..Len(s) : k \notin {i, j} => NotSpaceAt(s[k])

----------------------------------------------------------------------------
(* validateContact *)

Fields == {"name", "email", "message"}

MinMessageLength == 20

NameError(values) ==
    IF trim(values.name) = <<>> THEN "Please enter your name." ELSE "none"

EmailError(values) ==
    LET email == trim(values.email) IN
    IF email = <<>> THEN "Please enter your email."
    ELSE IF ~EmailRegexTest(email) THEN "Please enter a valid email address."
    ELSE "none"

\* A message rule that counts the characters of the untrimmed value.
MessageErrorUntrimmed(values) ==
    LET message == trim(values.message) IN
    IF message = <<>> THEN "Please write a message."
    ELSE IF Len(values.message) < MinMessageLength
         THEN "Please write at least 20 characters."
    ELSE "none"

MessageError(values) ==
    LET message == trim(values.message) IN
    IF message = <<>> THEN "Please write a message."
    ELSE IF Len(message) < MinMessageLength
         THEN "Please write at least 20 characters."
    ELSE "none"

\* A validation that stops at the first failing field.
validateContactFirstOnly(values) ==
    IF NameError(values) # "none" THEN [f \in {"name"} |-> NameError(values)]
    ELSE IF EmailError(values) # "none"
         THEN [f \in {"email"} |-> EmailError(values)]
    ELSE IF MessageError(values) # "none"
         THEN [f \in {"message"} |-> MessageError(values)]
    ELSE [f \in {} |-> "none"]

\* The errors object: a function whose domain is the failing fields.
validateContact(values) ==
    LET e == [f \in Fields |->
                 CASE f = "name" -> NameError(values)
                   [] f = "email" -> EmailError(values)
                   [] f = "message" -> MessageError(values)]
    IN  [f \in {g \in Fields : e[g] # "none"} |-> e[f]]

\* Object.keys(contactErrors).length === 0
isContactValid(values) == DOMAIN validateContact(values) = {}

\* validateContact has not been called.
NotReturned == [returned |-> FALSE, errors |-> [f \in {} |-> "none"]]

\* One call of validateContact, from the argument to the returned object.
ValidateCall ==
    /\ ~validateOutput.returned
    /\ validateOutput' =
           [returned |-> TRUE, errors |-> validateContact(validateInput)]
    /\ UNCHANGED validateInput

ValidateIdle ==
    /\ validateInput = [name |-> <<>>, email |-> <<>>, message |-> <<>>]
    /\ validateOutput = NotReturned

----------------------------------------------------------------------------
(* The contact form: render and handlers *)

EmptyValues == [name |-> <<>>, email |-> <<>>, message |-> <<>>]
NoneTouched == [f \in Fields |-> FALSE]
AllTouched == [f \in Fields |-> TRUE]

\* A render that shows a field's error whether or not the field is touched.
FieldErrorShownUngated(touched, errors, f) ==
    IF f \in DOMAIN errors THEN errors[f] ELSE "none"

\* contactTouched.f && contactErrors.f ? <p role="alert">{contactErrors.f}</p> : null
FieldErrorShown(touched, errors, f) ==
    IF touched[f] /\ f \in DOMAIN errors THEN errors[f] ELSE "none"

\* One render of App, as far as the form goes: the field errors and the
\* status line on the page, and the isContactValid the handlers close over.
RenderForm(values, touched, submitted) ==
    LET errors == validateContact(values) IN
    [ fieldError     |-> [f \in Fields |-> FieldErrorShown(touched, errors, f)],
      statusSuccess  |-> submitted,
      isContactValid |-> isContactValid(values) ]

\* The values a user types into each field.
NameInputs == { <<>>, <<" ">>, <<"A", "n", "n">> }

EmailInputs ==
    { <<>>, <<"b", "a", "d">>, <<"a", "@", "b", ".", "c">>,
      <<" ", "a", "@", "b", ".", "c", " ">> }

MessageInputs ==
    { <<>>, <<"s", "h", "o", "r", "t">>,
      Rep("x", MinMessageLength - 1), Rep("x", MinMessageLength),
      <<" ">> \o Rep("x", MinMessageLength - 1) \o <<" ">> }

FieldInputs(f) ==
    CASE f = "name" -> NameInputs
      [] f = "email" -> EmailInputs
      [] f = "message" -> MessageInputs

FormHistory(op, f) ==
    [ op |-> op, field |-> f,
      valid |-> isContactValid(contactValues),
      submitted |-> contactSubmitted ]

FormCommit(values, touched, submitted) ==
    /\ contactValues' = values
    /\ contactTouched' = touched
    /\ contactSubmitted' = submitted
    /\ formView' = RenderForm(values, touched, submitted)

\* A change handler without setContactSubmitted(false).
onContactChangeKeepsSubmitted(f, value) ==
    /\ FormCommit([contactValues EXCEPT ![f] = value], contactTouched,
                  contactSubmitted)
    /\ formLast' = FormHistory("change", f)

onContactChange(f, value) ==
    /\ FormCommit([contactValues EXCEPT ![f] = value], contactTouched, FALSE)
    /\ formLast' = FormHistory("change", f) @@ [value |-> value]

\* A blur handler that marks every field touched.
onContactBlurTouchesAll(f) ==
    /\ FormCommit(contactValues, AllTouched, contactSubmitted)
    /\ formLast' = FormHistory("blur", f)

onContactBlur(f) ==
    /\ FormCommit(contactValues, [contactTouched EXCEPT ![f] = TRUE],
                  contactSubmitted)
    /\ formLast' = FormHistory("blur", f)

\* A submit handler that shows the success state and keeps the values.
onContactSubmitKeepsValues ==
    /\ IF formView.isContactValid
       THEN FormCommit(contactValues, NoneTouched, TRUE)
       ELSE FormCommit(contactValues, AllTouched, contactSubmitted)
    /\ formLast' = FormHistory("submit", "none")

\* A submit handler that does not consult isContactValid.
onContactSubmitUnchecked ==
    /\ FormCommit(EmptyValues, NoneTouched, TRUE)
    /\ formLast' = FormHistory("submit", "none")

\* A submit handler without the leading setContactTouched(all true).
onContactSubmitNoTouch ==
    /\ IF formView.isContactValid
       THEN FormCommit(EmptyValues, NoneTouched, TRUE)
       ELSE FormCommit(contactValues, contactTouched, contactSubmitted)
    /\ formLast' = FormHistory("submit", "none")

onContactSubmit ==
    /\ IF formView.isContactValid
       THEN FormCommit(EmptyValues, NoneTouched, TRUE)
       ELSE FormCommit(contactValues, AllTouched, contactSubmitted)
    /\ formLast' = FormHistory("submit", "none")

\* A reset that clears the values and the success flag but not the touched flags.
onResetClickKeepsTouched ==
    /\ FormCommit(EmptyValues, contactTouched, FALSE)
    /\ formLast' = FormHistory("reset", "none")

onResetClick ==
    /\ FormCommit(EmptyValues, NoneTouched, FALSE)
    /\ formLast' = FormHistory("reset", "none")

FormInit ==
    /\ contactValues = EmptyValues
    /\ contactTouched = NoneTouched
    /\ contactSubmitted = FALSE
    /\ formView = RenderForm(EmptyValues, NoneTouched, FALSE)
    /\ formLast = [op |-> "init", field |-> "none", valid |-> FALSE,
                   submitted |-> FALSE]

----------------------------------------------------------------------------
(* usePrefersReducedMotion and useRevealOnScroll *)

\* How many [data-reveal] elements the page is modelled with.
NumReveal == 2

\* Array.from(document.querySelectorAll("[data-reveal]"))
RevealElements == 1..NumReveal

\* A tracker that subscribes without the startup query.
TrackerEffectNoStartupQuery ==
    IF hasMatchMedia
    THEN /\ reduced' = reduced
         /\ mqListener' = TRUE
    ELSE /\ UNCHANGED <<reduced, mqListener>>

\* The effect of usePrefersReducedMotion: the startup query through onChange(),
\* then the subscription.  Without window.matchMedia it returns at once.
TrackerEffect ==
    IF hasMatchMedia
    THEN /\ reduced' = envReduced
         /\ mqListener' = TRUE
    ELSE /\ UNCHANGED <<reduced, mqListener>>

\* const onChange = () => setReduced(Boolean(mediaQuery.matches))
onChange ==
    /\ mqListener
    /\ mqPending
    /\ mqPending' = FALSE
    /\ reduced' = envReduced
    /\ revLast' = [op |-> "change", els |-> {}]
    /\ UNCHANGED <<envReduced, mqListener, reducedMotion, phase, revealed,
                   revObserved, revQueue, revIntersecting, revNotified>>

\* elements.forEach((el) => observer.observe(el)): the new observer queues a
\* first entry for every element, with the element's intersection at that time.
ObserveAll ==
    {[target |-> e, isIntersecting |-> revIntersecting[e]] : e \in RevealElements}

\* The targets of a set of entries.
Targets(entries) == {entry.target : entry \in entries}

\* The queued entries' targets that an entry reports as intersecting.
IntersectingTargets(entries) ==
    {entry.target : entry \in {n \in entries : n.isIntersecting}}

\* elements.forEach((el) => el.classList.add("is-revealed"))
RevealAll == [e \in RevealElements |-> TRUE]

\* A run that overlooks the reduced-motion branch.
RevealEffectNoShortCircuit(rm) ==
    IF ~hasIO
    THEN /\ revealed' = RevealAll
         /\ revObserved' = {}
         /\ revQueue' = {}
    ELSE /\ revealed' = revealed
         /\ revObserved' = RevealElements
         /\ revQueue' = ObserveAll

\* A run that returns without revealing when IntersectionObserver is missing.
RevealEffectNoFallback(rm) ==
    IF rm
    THEN /\ revealed' = RevealAll
         /\ revObserved' = {}
         /\ revQueue' = {}
    ELSE IF ~hasIO
    THEN /\ revealed' = revealed
         /\ revObserved' = {}
         /\ revQueue' = {}
    ELSE /\ revealed' = revealed
         /\ revObserved' = RevealElements
         /\ revQueue' = ObserveAll

\* One run of the effect of useRevealOnScroll with the given reducedMotion,
\* after the cleanup of the run before it (observer.disconnect(), when that
\* run made an observer).
RevealEffect(rm) ==
    IF rm \/ ~hasIO
    THEN /\ revealed' = RevealAll
         /\ revObserved' = {}
         /\ revQueue' = {}
    ELSE /\ revealed' = revealed
         /\ revObserved' = RevealElements
         /\ revQueue' = ObserveAll

\* An observer callback that mirrors isIntersecting into the class.
RevealEntryToggle(was, isIntersecting) == isIntersecting

\* if (entry.isIntersecting) entry.target.classList.add("is-revealed")
RevealEntry(was, isIntersecting) == was \/ isIntersecting

\* A callback that calls observer.unobserve for every entry it receives.
RevealCallbackUnobservesAll ==
    /\ phase = "mounted"
    /\ revQueue # {}
    /\ revealed' = [e \in RevealElements |->
                       IF e \in Targets(revQueue)
                       THEN RevealEntry(revealed[e],
                                        e \in IntersectingTargets(revQueue))
                       ELSE revealed[e]]
    /\ revObserved' = revObserved \ Targets(revQueue)
    /\ revQueue' = {}
    /\ revNotified' = TRUE
    /\ revLast' = [op |-> "notify", els |-> Targets(revQueue)]
    /\ UNCHANGED <<motionVars, phase, revIntersecting>>

\* The reveal observer's callback on the queued entries: the target of every
\* entry that reports an intersection is revealed and unobserved.  An entry
\* keeps the isIntersecting of the moment it was queued; of two entries for
\* one target the intersecting one decides, since the class is only added.
RevealCallback ==
    /\ phase = "mounted"
    /\ revQueue # {}
    /\ revealed' = [e \in RevealElements |->
                       IF e \in Targets(revQueue)
                       THEN RevealEntry(revealed[e],
                                        e \in IntersectingTargets(revQueue))
                       ELSE revealed[e]]
    /\ revObserved' = revObserved \ IntersectingTargets(revQueue)
    /\ revQueue' = {}
    /\ revNotified' = TRUE
    /\ revLast' = [op |-> "notify", els |-> Targets(revQueue)]
    /\ UNCHANGED <<motionVars, phase, revIntersecting>>

\* The first commit's effects, in hook order: the tracker's, then the reveal
\* controller's, whose closure holds the reducedMotion of the first render.
RevealMount ==
    /\ phase = "initial"
    /\ phase' = "mounted"
    /\ TrackerEffect
    /\ RevealEffect(reducedMotion)
    /\ revLast' = [op |-> "mount", els |-> {}]
    /\ UNCHANGED <<envReduced, mqPending, reducedMotion, revIntersecting,
                   revNotified>>

\* The re-render a setReduced with a new value causes: the reveal effect's
\* dependency changed, so its cleanup runs and then the effect.
RevealRender ==
    /\ phase = "mounted"
    /\ reduced # reducedMotion
    /\ reducedMotion' = reduced
    /\ RevealEffect(reduced)
    /\ revLast' = [op |-> "render", els |-> {}]
    /\ UNCHANGED <<envReduced, mqListener, mqPending, reduced, phase,
                   revIntersecting, revNotified>>

\* Environment: the user's motion preference changes; a change event is
\* queued for the listener, if one is registered.
EnvMotionChange ==
    /\ phase # "initial"
    /\ envReduced' = ~envReduced
    /\ mqPending' = mqListener
    /\ revLast' = [op |-> "media", els |-> {}]
    /\ UNCHANGED <<mqListener, reduced, reducedMotion, phase, revealed,
                   revObserved, revQueue, revIntersecting, revNotified>>

\* Environment: scrolling moves one element into or out of the reveal band;
\* the observer, if it observes the element, queues an entry for it.
EnvRevealScroll ==
    /\ phase = "mounted"
    /\ \E e \in RevealElements :
        /\ revIntersecting' = [revIntersecting EXCEPT ![e] = ~@]
        /\ revQueue' = revQueue \cup
               {[target |-> t, isIntersecting |-> ~revIntersecting[t]] :
                   t \in {e} \cap revObserved}
        /\ revLast' = [op |-> "scroll", els |-> {e}]
    /\ UNCHANGED <<motionVars, phase, revealed, revObserved, revNotified>>

\* SECTIONS.map((s) => s.id)
SectionIds == <<"home", "about", "work", "contact">>

Ids == {SectionIds[i] : i \in DOMAIN SectionIds}

\* The page of App: useScrollSpy is given the ids of SECTIONS, and every
\* section has its element.
PageInit ==
    /\ spyIds = SectionIds
    /\ domIds = Ids
    /\ scrolling = TRUE

EnvInit ==
    /\ hasIO \in BOOLEAN
    /\ hasMatchMedia \in BOOLEAN
    /\ PageInit

EnvIdle ==
    /\ hasIO = TRUE
    /\ hasMatchMedia = TRUE
    /\ PageInit

RevealInit ==
    /\ envReduced \in BOOLEAN
    /\ mqListener = FALSE
    /\ mqPending = FALSE
    /\ phase = "initial"
    /\ reduced = FALSE
    /\ reducedMotion = FALSE
    /\ revealed = [e \in RevealElements |-> FALSE]
    /\ revObserved = {}
    /\ revQueue = {}
    /\ revIntersecting \in [RevealElements -> BOOLEAN]
    /\ revNotified = FALSE
    /\ revLast = [op |-> "init", els |-> {}]

RevealIdle ==
    /\ envReduced = FALSE
    /\ mqListener = FALSE
    /\ mqPending = FALSE
    /\ phase = "initial"
    /\ reduced = FALSE
    /\ reducedMotion = FALSE
    /\ revealed = [e \in RevealElements |-> FALSE]
    /\ revObserved = {}
    /\ revQueue = {}
    /\ revIntersecting = [e \in RevealElements |-> FALSE]
    /\ revNotified = FALSE
    /\ revLast = [op |-> "init", els |-> {}]

----------------------------------------------------------------------------
(* useScrollSpy *)

\* Environment: the page's layout.  The sections' elements are stacked, and
\* the viewport is 400 units high.
OffsetTop == [home |-> 0, about |-> 124, work |-> 222, contact |-> 320]

OffsetHeight == [home |-> 124, about |-> 98, work |-> 98, contact |-> 140]

Viewport == [height |-> 400]

\* The scroll positions the environment takes are 14 * k, k in 0..MaxScroll.
MaxScroll == 20

ScrollPositions == {14 * k : k \in 0..MaxScroll}

\* rootMargin "-20% 0px -65% 0px": the band between 20% and 35% of the viewport.
RootMarginTop == 20
RootMarginBottom == 65

BandTop == (Viewport.height * RootMarginTop) \div 100
BandBottom == Viewport.height - (Viewport.height * RootMarginBottom) \div 100

\* threshold [0.1, 0.2, 0.35, 0.5, 0.65], in thousandths
Thresholds == <<100, 200, 350, 500, 650>>

\* const headerOffset = 96
HeaderOffset == 96

Max(a, b) == IF a >= b THEN a ELSE b
Min(a, b) == IF a <= b THEN a ELSE b
Abs(a) == IF a >= 0 THEN a ELSE -a

\* boundingClientRect.top of the section at scroll position y
RectTop(id, y) == OffsetTop[id] - y

RectBottom(id, y) == RectTop(id, y) + OffsetHeight[id]

\* The height of the part of the section inside the band.
Overlap(id, y) ==
    LET lo == Max(RectTop(id, y), BandTop)
        hi == Min(RectBottom(id, y), BandBottom)
    IN  IF hi > lo THEN hi - lo ELSE 0

\* isIntersecting: the section meets the band, or touches its edge.
IsIntersecting(id, y) ==
    RectTop(id, y) <= BandBottom /\ RectBottom(id, y) >= BandTop

\* The number of thresholds the intersection ratio has reached.
ThresholdIndex(id, y) ==
    Cardinality({i \in DOMAIN Thresholds :
                    Thresholds[i] * OffsetHeight[id] <= Overlap(id, y) * 1000})

\* An IntersectionObserverEntry.  intersectionRatio is overlap / height; it is
\* kept as the two numbers and compared exactly.
Entry(id, y) ==
    [ id |-> id,
      isIntersecting |-> IsIntersecting(id, y),
      overlap |-> Overlap(id, y),
      height |-> OffsetHeight[id],
      top |-> RectTop(id, y) ]

\* The entries of one notification, in the order the targets were observed.
RECURSIVE EntriesFrom(_, _, _)
EntriesFrom(i, queued, y) ==
    IF i > Len(spyIds) THEN <<>>
    ELSE IF spyIds[i] \in queued
         THEN <<Entry(spyIds[i], y)>> \o EntriesFrom(i + 1, queued, y)
         ELSE EntriesFrom(i + 1, queued, y)

RatioLess(a, b) == a.overlap * b.height < b.overlap * a.height

\* A comparator whose tie-break prefers the larger distance.
SortBeforeFarthestTop(a, b) ==
    IF RatioLess(a, b) \/ RatioLess(b, a)
    THEN RatioLess(b, a)
    ELSE Abs(b.top) < Abs(a.top)

\* The comparator orders a strictly before b:
\*   if (b.ratio !== a.ratio) return b.ratio - a.ratio;
\*   return Math.abs(a.top) - Math.abs(b.top);
SortBefore(a, b) ==
    IF RatioLess(a, b) \/ RatioLess(b, a)
    THEN RatioLess(b, a)
    ELSE Abs(a.top) < Abs(b.top)

\* entries.filter((e) => e.isIntersecting)
FilterIntersecting(entries) ==
    SelectSeq(entries, LAMBDA e : e.isIntersecting)

\* The first element of the (stable) sort of a non-empty list: the earliest
\* element that no other element is ordered strictly before.
\* SortedFirstFrom(visible, best, i): the index of that element, given that
\* best is the index of the first element of the sort of visible[1..i-1].
RECURSIVE SortedFirstFrom(_, _, _)
SortedFirstFrom(visible, best, i) ==
    IF i > Len(visible) THEN best
    ELSE IF SortBefore(visible[i], visible[best])
         THEN SortedFirstFrom(visible, i, i + 1)
         ELSE SortedFirstFrom(visible, best, i + 1)

SortedFirst(visible) == visible[SortedFirstFrom(visible, 1, 2)]

\* An initial state that is not a section id.
InitialActiveIdUnlisted == "top"

\* useState(sectionIds[0] || "home")
InitialActiveId == IF spyIds # <<>> THEN spyIds[1] ELSE "home"

\* visible[0].id of the observer callback, "none" when no entry intersects.
SpyCallbackWinner(entries) ==
    LET visible == FilterIntersecting(entries) IN
    IF visible = <<>> THEN "none" ELSE SortedFirst(visible).id

\* A callback that calls setActiveId without consulting latestActive.
SpyCallbackWritesUnguarded(entries, latest) ==
    SpyCallbackWinner(entries) # "none"

\* The observer callback calls setActiveId.
SpyCallbackWrites(entries, latest) ==
    /\ SpyCallbackWinner(entries) # "none"
    /\ SpyCallbackWinner(entries) # latest

\* What a step of the resolver did: the handler, the notification's targets,
\* whether latestActive equalled activeId when it ran, the activeId it ran
\* with, the section it selected and whether it called setActiveId.
SpyHistory(op, ids, winner, wrote) ==
    [ op |-> op, ids |-> ids, synced |-> latestActive = activeId,
      before |-> activeId, winner |-> winner, wrote |-> wrote ]

\* The observer callback: the value of activeId after it.
\*   if (visible[0] && visible[0].id !== latestActive.current) setActiveId(visible[0].id)
SpyCallbackResult(entries, latest, current) ==
    LET visible == FilterIntersecting(entries) IN
    IF visible # <<>> /\ SortedFirst(visible).id # latest
    THEN SortedFirst(visible).id
    ELSE current

SpyCallback ==
    /\ phase = "mounted"
    /\ spyQueue # {}
    /\ spyQueue' = {}
    /\ spySignalled' = TRUE
    /\ UNCHANGED <<phase, scrollY, latestActive, spyObserved, scrollListener,
                   scrollPending>>
    /\ activeId' = SpyCallbackResult(EntriesFrom(1, spyQueue, scrollY),
                                     latestActive, activeId)
    /\ spyLast' = SpyHistory("notify", spyQueue,
           SpyCallbackWinner(EntriesFrom(1, spyQueue, scrollY)),
           SpyCallbackWrites(EntriesFrom(1, spyQueue, scrollY), latestActive))

\* A walk that compares every listed id, with or without an element.
RECURSIVE ScrollWalkNoSkip(_, _, _)
ScrollWalkNoSkip(i, current, scrollPos) ==
    IF i > Len(spyIds) THEN current
    ELSE ScrollWalkNoSkip(i + 1,
                          IF OffsetTop[spyIds[i]] <= scrollPos
                          THEN spyIds[i] ELSE current,
                          scrollPos)

\* The fallback's walk over the ids: the last whose offsetTop <= scrollPos.
\*   if (!el) continue; if (el.offsetTop <= scrollPos) current = id
RECURSIVE ScrollWalk(_, _, _)
ScrollWalk(i, current, scrollPos) ==
    IF i > Len(spyIds) THEN current
    ELSE ScrollWalk(i + 1,
                    IF spyIds[i] \in domIds /\ OffsetTop[spyIds[i]] <= scrollPos
                    THEN spyIds[i] ELSE current,
                    scrollPos)

\* let current = ids[0], then the walk
ScrollCurrent(y) == ScrollWalk(1, spyIds[1], y + HeaderOffset)

\* onScroll: the value of activeId after it.
\*   if (current !== latestActive.current) setActiveId(current)
OnScrollResult(y, latest, current) ==
    IF ScrollCurrent(y) # latest THEN ScrollCurrent(y) ELSE current

\* onScroll calls setActiveId.
OnScrollWrites(y, latest) == ScrollCurrent(y) # latest

\* The scroll listener on a scroll event.
onScroll ==
    /\ phase = "mounted"
    /\ scrollListener
    /\ scrollPending
    /\ scrollPending' = FALSE
    /\ activeId' = OnScrollResult(scrollY, latestActive, activeId)
    /\ spySignalled' = TRUE
    /\ spyLast' = SpyHistory("scroll", {}, ScrollCurrent(scrollY),
                             OnScrollWrites(scrollY, latestActive))
    /\ UNCHANGED <<phase, scrollY, latestActive, spyObserved, spyQueue,
                   scrollListener>>

\* ids.forEach((id) => { const el = getElementById(id); if (el) observe(el) })
ObservableIds == {spyIds[i] : i \in DOMAIN spyIds} \cap domIds

\* The two effects of useScrollSpy in one commit.  The first records the
\* rendered activeId in latestActive.  The second runs at every commit, since
\* its dependency sectionIds is a new array at every render: the cleanup of
\* the run before it (observer.disconnect() or removeEventListener), then a
\* new observer on every section element, each with its initial entry; or,
\* without IntersectionObserver, the scroll listener and one call of onScroll.
SpyEffects ==
    /\ latestActive' = activeId
    /\ IF spyIds = <<>>
       THEN UNCHANGED <<activeId, spyObserved, spyQueue, scrollListener,
                        spySignalled>>
       ELSE IF hasIO
       THEN /\ spyObserved' = ObservableIds
            /\ spyQueue' = ObservableIds
            /\ UNCHANGED <<activeId, scrollListener, spySignalled>>
       ELSE /\ scrollListener' = TRUE
            /\ activeId' = OnScrollResult(scrollY, activeId, activeId)
            /\ spySignalled' = TRUE
            /\ UNCHANGED <<spyObserved, spyQueue>>

SpyMount ==
    /\ phase = "initial"
    /\ phase' = "mounted"
    /\ SpyEffects
    /\ spyLast' = IF hasIO \/ spyIds = <<>>
                   THEN SpyHistory("mount", {}, "none", FALSE)
                   ELSE SpyHistory("mount", {}, ScrollCurrent(scrollY),
                                   OnScrollWrites(scrollY, activeId))
    /\ UNCHANGED <<scrollY, scrollPending>>

\* A re-render of App, for a new activeId or for any other state of App.
SpyRender ==
    /\ phase = "mounted"
    /\ SpyEffects
    /\ spyLast' = IF hasIO \/ spyIds = <<>>
                   THEN SpyHistory("render", {}, "none", FALSE)
                   ELSE SpyHistory("render", {}, ScrollCurrent(scrollY),
                                   OnScrollWrites(scrollY, activeId))
    /\ UNCHANGED <<phase, scrollY, scrollPending>>

\* Environment: the page scrolls.  The observer queues an entry for every
\* observed section whose isIntersecting or threshold index changed; a
\* scroll event is queued for the scroll listener, if one is registered.
EnvScroll ==
    /\ phase = "mounted"
    /\ scrolling
    /\ \E y \in ScrollPositions \ {scrollY} :
        /\ scrollY' = y
        /\ spyQueue' = spyQueue \cup
              {id \in spyObserved :
                  \/ IsIntersecting(id, y) # IsIntersecting(id, scrollY)
                  \/ ThresholdIndex(id, y) # ThresholdIndex(id, scrollY)}
    /\ scrollPending' = scrollListener
    /\ spyLast' = SpyHistory("env", {}, "none", FALSE)
    /\ UNCHANGED <<phase, activeId, latestActive, spyObserved, scrollListener,
                   spySignalled>>

\* Environment: the page comes to rest; no scroll follows.
EnvScrollStop ==
    /\ phase = "mounted"
    /\ scrolling
    /\ scrolling' = FALSE
    /\ spyLast' = SpyHistory("rest", {}, "none", FALSE)
    /\ UNCHANGED <<phase, scrollY, activeId, latestActive, spyObserved,
                   spyQueue, scrollListener, scrollPending, spySignalled>>

SpyInit ==
    /\ scrollY = 0
    /\ activeId = InitialActiveId
    /\ latestActive = InitialActiveId
    /\ spyObserved = {}
    /\ spyQueue = {}
    /\ scrollListener = FALSE
    /\ scrollPending = FALSE
    /\ spySignalled = FALSE
    /\ spyLast = SpyHistory("init", {}, "none", FALSE)

----------------------------------------------------------------------------
(* The effects' subscriptions over the life of App *)

\* The effects of App that subscribe: usePrefersReducedMotion, useScrollSpy,
\* useRevealOnScroll and the resize effect of App.
Resolvers == {"tracker", "spy", "reveal", "resize"}

\* mediaQuery.addEventListener("change", onChange), or addListener
TrackerSubscribes == hasMatchMedia

\* return () => mediaQuery.removeEventListener("change", onChange), or
\* removeListener; undefined without window.matchMedia
TrackerReturnsCleanup == hasMatchMedia

\* new IntersectionObserver(...) with observe, or addEventListener("scroll");
\* nothing with an empty list of ids
SpySubscribes == spyIds # <<>>

\* A scroll spy that returns a cleanup on the observer path only.
SpyReturnsCleanupObserverOnly == hasIO

\* return () => observer.disconnect(), or
\* return () => window.removeEventListener("scroll", onScroll); undefined
\* with an empty list of ids
SpyReturnsCleanup == spyIds # <<>>

\* new IntersectionObserver(...) with observe, after the two early returns
RevealSubscribes(rm) == ~rm /\ hasIO

\* return () => observer.disconnect(); undefined on the early returns
RevealReturnsCleanup(rm) == ~rm /\ hasIO

\* A resolver's subscriptions once React has run the cleanup of its last run.
AfterCleanup(r) == IF cleanup[r] THEN live[r] - 1 ELSE live[r]

\* A resolver's subscriptions after its effect ran again: cleanup, then run.
AfterRun(r, subscribes) == AfterCleanup(r) + (IF subscribes THEN 1 ELSE 0)

\* The first commit of App: every effect runs, none has a cleanup to run.
LifeMount ==
    /\ RevealMount
    /\ SpyMount
    /\ live' = [r \in Resolvers |->
                   CASE r = "tracker" -> AfterRun(r, TrackerSubscribes)
                     [] r = "spy" -> AfterRun(r, SpySubscribes)
                     [] r = "reveal" -> AfterRun(r, RevealSubscribes(reducedMotion))
                     [] r = "resize" -> AfterRun(r, TRUE)]
    /\ cleanup' = [r \in Resolvers |->
                      CASE r = "tracker" -> TrackerReturnsCleanup
                        [] r = "spy" -> SpyReturnsCleanup
                        [] r = "reveal" -> RevealReturnsCleanup(reducedMotion)
                        [] r = "resize" -> TRUE]

\* A re-render of App.  The effects with dependencies [] (tracker, resize)
\* do not run again; the scroll spy's runs again at every render; the reveal
\* controller's runs again when reducedMotion has changed.
LifeRender ==
    /\ SpyRender
    /\ IF reduced # reducedMotion
       THEN RevealRender
       ELSE UNCHANGED <<motionVars, revealVars>>
    /\ live' = [live EXCEPT
                   !.spy = AfterRun("spy", SpySubscribes),
                   !.reveal = IF reduced # reducedMotion
                              THEN AfterRun("reveal", RevealSubscribes(reduced))
                              ELSE @]
    /\ cleanup' = [cleanup EXCEPT
                      !.spy = SpyReturnsCleanup,
                      !.reveal = IF reduced # reducedMotion
                                 THEN RevealReturnsCleanup(reduced)
                                 ELSE @]

\* App is unmounted: React runs the cleanup of every effect that returned
\* one.  A listener or observer stays registered, and keeps its queued
\* events, only if its subscription was not released.
LifeUnmount ==
    /\ phase = "mounted"
    /\ phase' = "unmounted"
    /\ live' = [r \in Resolvers |-> AfterCleanup(r)]
    /\ cleanup' = [r \in Resolvers |-> FALSE]
    /\ mqListener' = (mqListener /\ AfterCleanup("tracker") > 0)
    /\ mqPending' = (mqPending /\ AfterCleanup("tracker") > 0)
    /\ scrollListener' = (scrollListener /\ AfterCleanup("spy") > 0)
    /\ scrollPending' = (scrollPending /\ AfterCleanup("spy") > 0)
    /\ spyObserved' = IF AfterCleanup("spy") > 0 THEN spyObserved ELSE {}
    /\ spyQueue' = IF AfterCleanup("spy") > 0 THEN spyQueue ELSE {}
    /\ revObserved' = IF AfterCleanup("reveal") > 0 THEN revObserved ELSE {}
    /\ revQueue' = IF AfterCleanup("reveal") > 0 THEN revQueue ELSE {}
    /\ revLast' = [op |-> "unmount", els |-> {}]
    /\ spyLast' = SpyHistory("unmount", {}, "none", FALSE)
    /\ UNCHANGED <<envReduced, reduced, reducedMotion, revealed,
                   revIntersecting, revNotified, scrollY, activeId,
                   latestActive, spySignalled>>

LifeInit ==
    /\ live = [r \in Resolvers |-> 0]
    /\ cleanup = [r \in Resolvers |-> FALSE]

----------------------------------------------------------------------------
(* The mobile menu and the resize effect *)

\* if (window.innerWidth >= 860) setMobileOpen(false)
MobileBreakpoint == 860

\* The widths the window takes: a phone, and around the breakpoint.
Widths ==
    {MobileBreakpoint - 485, MobileBreakpoint - 1, MobileBreakpoint,
     MobileBreakpoint + 420}

MenuHistory(op) == [op |-> op, open |-> mobileOpen]

\* A resize handler that closes the menu only above the breakpoint.
onResizeStrictlyAbove ==
    /\ live.resize > 0
    /\ resizePending
    /\ resizePending' = FALSE
    /\ mobileOpen' = IF innerWidth > MobileBreakpoint THEN FALSE ELSE mobileOpen
    /\ menuLast' = MenuHistory("resize")
    /\ UNCHANGED innerWidth

\* const onResize = () => { if (window.innerWidth >= 860) setMobileOpen(false) }
\* as the listener of the window's resize event.
onResize ==
    /\ live.resize > 0
    /\ resizePending
    /\ resizePending' = FALSE
    /\ mobileOpen' = IF innerWidth >= MobileBreakpoint THEN FALSE ELSE mobileOpen
    /\ menuLast' = MenuHistory("resize")
    /\ UNCHANGED innerWidth

\* The toggle button: onClick={() => setMobileOpen((v) => !v)}
onMobileToggleClick ==
    /\ phase = "mounted"
    /\ mobileOpen' = ~mobileOpen
    /\ menuLast' = MenuHistory("toggle")
    /\ UNCHANGED <<innerWidth, resizePending>>

\* The close button, the backdrop and the links of the menu:
\* setMobileOpen(false)
onMobileCloseClick ==
    /\ phase = "mounted"
    /\ mobileOpen
    /\ mobileOpen' = FALSE
    /\ menuLast' = MenuHistory("close")
    /\ UNCHANGED <<innerWidth, resizePending>>

\* Environment: the window is resized; a resize event is queued for the
\* listener, if one is registered.
EnvResize ==
    /\ \E w \in Widths \ {innerWidth} : innerWidth' = w
    /\ resizePending' = (live.resize > 0)
    /\ menuLast' = MenuHistory("env")
    /\ UNCHANGED mobileOpen

\* The first commit, as far as the menu goes.
MenuMount ==
    /\ LifeMount
    /\ menuLast' = MenuHistory("mount")
    /\ UNCHANGED <<mobileOpen, innerWidth, resizePending>>

\* The unmount: a queued resize event is dropped with the listener.
MenuUnmount ==
    /\ LifeUnmount
    /\ resizePending' = (resizePending /\ AfterCleanup("resize") > 0)
    /\ menuLast' = MenuHistory("unmount")
    /\ UNCHANGED <<mobileOpen, innerWidth>>

MenuInit ==
    /\ mobileOpen = FALSE
    /\ innerWidth \in Widths
    /\ resizePending = FALSE
    /\ menuLast = [op |-> "init", open |-> FALSE]

MenuIdle ==
    /\ mobileOpen = FALSE
    /\ innerWidth = MobileBreakpoint + 420
    /\ resizePending = FALSE
    /\ menuLast = [op |-> "init", open |-> FALSE]

----------------------------------------------------------------------------
(* Specifications *)

FormChange ==
    /\ \E f \in Fields : \E value \in FieldInputs(f) : onContactChange(f, value)
    /\ UNCHANGED <<validateVars, envVars, menuVars, phase, lifeVars, motionVars,
                   revealVars, spyVars>>

FormBlur ==
    /\ \E f \in Fields : onContactBlur(f)
    /\ UNCHANGED <<validateVars, envVars, menuVars, phase, lifeVars, motionVars,
                   revealVars, spyVars>>

FormSubmit ==
    /\ onContactSubmit
    /\ UNCHANGED <<validateVars, envVars, menuVars, phase, lifeVars, motionVars,
                   revealVars, spyVars>>

FormReset ==
    /\ onResetClick
    /\ UNCHANGED <<validateVars, envVars, menuVars, phase, lifeVars, motionVars,
                   revealVars, spyVars>>

FormNext ==
    \/ FormChange
    \/ FormBlur
    \/ FormSubmit
    \/ FormReset

InitForm ==
    FormInit /\ ValidateIdle /\ EnvIdle /\ LifeInit /\ MenuIdle /\ RevealIdle /\ SpyInit

\* The contact-form session on its own.
SpecForm == InitForm /\ [][FormNext]_vars

RevealMountStep ==
    /\ RevealMount
    /\ UNCHANGED <<formVars, validateVars, envVars, menuVars, lifeVars, spyVars>>

RevealRenderStep ==
    /\ RevealRender
    /\ UNCHANGED <<formVars, validateVars, envVars, menuVars, lifeVars, spyVars>>

RevealCallbackStep ==
    /\ RevealCallback
    /\ UNCHANGED <<formVars, validateVars, envVars, menuVars, lifeVars, spyVars>>

MotionChangeStep ==
    /\ onChange
    /\ UNCHANGED <<formVars, validateVars, envVars, menuVars, lifeVars, spyVars>>

EnvMotionChangeStep ==
    /\ EnvMotionChange
    /\ UNCHANGED <<formVars, validateVars, envVars, menuVars, lifeVars, spyVars>>

EnvRevealScrollStep ==
    /\ EnvRevealScroll
    /\ UNCHANGED <<formVars, validateVars, envVars, menuVars, lifeVars, spyVars>>

RevealNext ==
    \/ RevealMountStep
    \/ RevealRenderStep
    \/ RevealCallbackStep
    \/ MotionChangeStep
    \/ EnvMotionChangeStep
    \/ EnvRevealScrollStep

InitReveal ==
    FormInit /\ ValidateIdle /\ EnvInit /\ LifeInit /\ MenuIdle /\ RevealInit /\ SpyInit

\* The motion tracker and the reveal controller, with their environment.
SpecReveal == InitReveal /\ [][RevealNext]_vars

\* The same, with the scheduling the event loop and React guarantee: the
\* first commit's effects run, a queued change event is dispatched, and a
\* state update is followed by its re-render.
SpecRevealFair ==
    /\ SpecReveal
    /\ WF_vars(RevealMountStep)
    /\ WF_vars(MotionChangeStep)
    /\ WF_vars(RevealRenderStep)

\* The same, with the browser delivering the entries an observer has queued.
SpecRevealDelivered ==
    /\ SpecRevealFair
    /\ WF_vars(RevealCallbackStep)

SpyMountStep ==
    /\ SpyMount
    /\ UNCHANGED <<formVars, validateVars, envVars, menuVars, lifeVars,
                   motionVars, revealVars>>

SpyRenderStep ==
    /\ SpyRender
    /\ UNCHANGED <<formVars, validateVars, envVars, menuVars, lifeVars,
                   motionVars, revealVars>>

SpyCallbackStep ==
    /\ SpyCallback
    /\ UNCHANGED <<formVars, validateVars, envVars, menuVars, lifeVars,
                   motionVars, revealVars>>

SpyScrollStep ==
    /\ onScroll
    /\ UNCHANGED <<formVars, validateVars, envVars, menuVars, lifeVars,
                   motionVars, revealVars>>

EnvScrollStep ==
    /\ EnvScroll
    /\ UNCHANGED <<formVars, validateVars, envVars, menuVars, lifeVars,
                   motionVars, revealVars>>

SpyNext ==
    \/ SpyMountStep
    \/ SpyRenderStep
    \/ SpyCallbackStep
    \/ SpyScrollStep
    \/ EnvScrollStep

InitSpy ==
    /\ hasIO \in BOOLEAN
    /\ hasMatchMedia = TRUE
    /\ PageInit
    /\ FormInit /\ ValidateIdle /\ LifeInit /\ MenuIdle /\ RevealIdle /\ SpyInit

\* The scroll spy with its environment, on the observer path (hasIO) and on
\* the fallback path.
SpecSpy == InitSpy /\ [][SpyNext]_vars

\* The re-render React makes for a setActiveId with a new value.
SpyUpdateRenderStep == activeId # latestActive /\ SpyRenderStep

EnvScrollStopStep ==
    /\ EnvScrollStop
    /\ UNCHANGED <<formVars, validateVars, hasIO, hasMatchMedia, spyIds, domIds,
                   menuVars, lifeVars, motionVars, revealVars>>

SpySettleNext ==
    \/ SpyNext
    \/ EnvScrollStopStep

\* The scroll spy on a page that may come to rest, with the scheduling the
\* event loop and React guarantee: the first commit's effects run, queued
\* entries and scroll events are delivered, and a state update is followed
\* by its re-render.  The re-renders made for other state of App may or may
\* not go on.
SpecSpySettle ==
    /\ InitSpy
    /\ [][SpySettleNext]_vars
    /\ WF_vars(SpyMountStep)
    /\ WF_vars(SpyCallbackStep)
    /\ WF_vars(SpyScrollStep)
    /\ WF_vars(SpyUpdateRenderStep)

\* The characters of the strings validateContact is applied to.
Alphabet == {"a", "@", ".", " "}

\* The longest email string.
MaxEmailLength == 6

EmailStrings == UNION {[1..n -> Alphabet] : n \in 0..MaxEmailLength}

\* The longest message body.
MaxMessageLength == 21

\* Message bodies of every length, without and with a space inside, each
\* between no, one or two spaces at either end.
MessageStrings ==
    LET pads == {<<>>, <<" ">>, <<" ", " ">>}
        bodies == {Rep("x", n) : n \in 0..MaxMessageLength} \cup
                  {<<"x", " ">> \o Rep("x", n - 2) : n \in 3..MaxMessageLength}
    IN  {pre \o body \o post : pre \in pads, body \in bodies, post \in pads}

\* The arguments of validateContact: every combination of the typed values,
\* every email string and every message string.
ValidateInputs ==
    {[name |-> n, email |-> e, message |-> m] :
        n \in NameInputs, e \in EmailInputs, m \in MessageInputs} \cup
    {[name |-> n, email |-> e, message |-> Rep("x", MinMessageLength)] :
        n \in {<<>>, <<"A", "n", "n">>}, e \in EmailStrings} \cup
    {[name |-> <<"A", "n", "n">>, email |-> e, message |-> m] :
        e \in {<<>>, <<"a", "@", "b", ".", "c">>}, m \in MessageStrings}

ValidateStep ==
    /\ ValidateCall
    /\ UNCHANGED <<formVars, envVars, menuVars, phase, lifeVars, motionVars, revealVars,
                   spyVars>>

ValidateNext == ValidateStep

InitValidate ==
    /\ FormInit /\ EnvIdle /\ LifeInit /\ MenuIdle /\ RevealIdle /\ SpyInit
    /\ validateInput \in ValidateInputs
    /\ validateOutput = NotReturned

\* validateContact applied once to each argument.
SpecValidate == InitValidate /\ [][ValidateNext]_vars

\* The arguments and pages useScrollSpy is run with: no ids at all, or the
\* ids of SECTIONS on a page where every section, every section but the
\* first, or every section but the third has its element.
InitSpyDegraded ==
    /\ hasIO \in BOOLEAN
    /\ hasMatchMedia = TRUE
    /\ spyIds \in {<<>>, SectionIds}
    /\ domIds \in {Ids, Ids \ {SectionIds[1]}, Ids \ {SectionIds[3]}}
    /\ scrolling = TRUE
    /\ FormInit /\ ValidateIdle /\ LifeInit /\ MenuIdle /\ RevealIdle /\ SpyInit

\* The scroll spy given an empty list of ids, or ids without an element.
SpecSpyDegraded == InitSpyDegraded /\ [][SpyNext]_vars

LifeMountStep ==
    LifeMount /\ UNCHANGED <<formVars, validateVars, envVars, menuVars>>

LifeRenderStep ==
    LifeRender /\ UNCHANGED <<formVars, validateVars, envVars, menuVars>>

LifeUnmountStep ==
    LifeUnmount /\ UNCHANGED <<formVars, validateVars, envVars, menuVars>>

LifeNext ==
    \/ LifeMountStep
    \/ LifeRenderStep
    \/ LifeUnmountStep
    \/ MotionChangeStep
    \/ EnvMotionChangeStep
    \/ RevealCallbackStep
    \/ EnvRevealScrollStep

InitLife ==
    FormInit /\ ValidateIdle /\ EnvInit /\ LifeInit /\ MenuIdle /\ RevealInit /\ SpyInit

\* App from its first commit to its unmount: the effects' subscriptions, with
\* the motion preference and the reveal band as the environment.
SpecLife == InitLife /\ [][LifeNext]_vars

MenuMountStep ==
    MenuMount /\ UNCHANGED <<formVars, validateVars, envVars>>

MenuUnmountStep ==
    MenuUnmount /\ UNCHANGED <<formVars, validateVars, envVars>>

MenuResizeStep ==
    /\ onResize
    /\ UNCHANGED <<formVars, validateVars, envVars, phase, lifeVars, motionVars,
                   revealVars, spyVars>>

MenuToggleStep ==
    /\ onMobileToggleClick
    /\ UNCHANGED <<formVars, validateVars, envVars, phase, lifeVars, motionVars,
                   revealVars, spyVars>>

MenuCloseStep ==
    /\ onMobileCloseClick
    /\ UNCHANGED <<formVars, validateVars, envVars, phase, lifeVars, motionVars,
                   revealVars, spyVars>>

EnvResizeStep ==
    /\ EnvResize
    /\ UNCHANGED <<formVars, validateVars, envVars, phase, lifeVars, motionVars,
                   revealVars, spyVars>>

MenuNext ==
    \/ MenuMountStep
    \/ MenuUnmountStep
    \/ MenuResizeStep
    \/ MenuToggleStep
    \/ MenuCloseStep
    \/ EnvResizeStep

InitMenu ==
    /\ FormInit /\ ValidateIdle /\ EnvInit /\ LifeInit /\ MenuInit
    /\ RevealInit /\ SpyInit

\* The mobile menu with the window's width as its environment, from the
\* first commit to the unmount.
SpecMenu == InitMenu /\ [][MenuNext]_vars

----------------------------------------------------------------------------
(* Properties of the contact-form session *)

\* C3: a submit taken while validate(values) is empty sets submitted, empties
\* the three values and clears the three touched flags; a change of any field
\* made in the Submitted state sets submitted back to false.
C3_SubmitFlow ==
    /\ (formLast.op = "submit" /\ formLast.valid) =>
           /\ contactSubmitted
           /\ contactValues = EmptyValues
           /\ contactTouched = NoneTouched
    /\ (formLast.op = "change" /\ formLast.submitted) => ~contactSubmitted

\* A field was edited right after a successful submit.
C3_Witness ==
    /\ formLast.op = "change"
    /\ formLast.submitted
    /\ contactValues # EmptyValues

\* C4: submitted goes from false to true only in a submit step taken while
\* validate(values) is empty, and every change step and every reset step
\* leaves submitted false.
C4_SubmittedOnlyByValidSubmit ==
    /\ [][(~contactSubmitted /\ contactSubmitted') =>
              (formLast'.op = "submit" /\ isContactValid(contactValues))]_vars
    /\ [](formLast.op \in {"change", "reset"} => ~contactSubmitted)

\* A valid submit has just turned submitted from false to true.
C4_Witness ==
    /\ formLast.op = "submit"
    /\ formLast.valid
    /\ ~formLast.submitted
    /\ contactSubmitted

\* C5 as stated: after a submit attempt made while validate(values) is
\* non-empty, all fields are touched, the session is in Editing
\* (submitted = false) and the error of every failing field is shown.
C5_AsStated ==
    (formLast.op = "submit" /\ ~formLast.valid) =>
        /\ contactTouched = AllTouched
        /\ ~contactSubmitted
        /\ \A f \in DOMAIN validateContact(contactValues) :
               formView.fieldError[f] # "none"

\* C5 amended: a submit attempt made while validate(values) is non-empty marks
\* all three fields touched and leaves the values and the submitted flag as they
\* were (Editing stays Editing, Submitted stays Submitted); afterwards the page
\* shows the error of every failing field.
C5_InvalidSubmit ==
    [][(formLast'.op = "submit" /\ ~isContactValid(contactValues)) =>
           /\ contactTouched' = AllTouched
           /\ contactValues' = contactValues
           /\ contactSubmitted' = contactSubmitted
           /\ \A f \in DOMAIN validateContact(contactValues) :
                  formView'.fieldError[f] = validateContact(contactValues)[f]]_vars

\* An invalid submit was attempted in the Submitted state, and the session is
\* still Submitted with every field touched.
C5_Witness ==
    /\ formLast.op = "submit"
    /\ ~formLast.valid
    /\ formLast.submitted
    /\ contactSubmitted
    /\ contactTouched = AllTouched

\* C6: the page shows an error for a field only if the field is touched and
\* validate(values) reports an error for it, and then it shows that message; an
\* untouched field shows no error whatever its value.
C6_ErrorGating ==
    \A f \in Fields :
        formView.fieldError[f] # "none" =>
            /\ contactTouched[f]
            /\ f \in DOMAIN validateContact(contactValues)
            /\ formView.fieldError[f] = validateContact(contactValues)[f]

\* An untouched failing field shows nothing while a touched failing field
\* shows its error.
C6_Witness ==
    \E f, g \in Fields :
        /\ ~contactTouched[f]
        /\ f \in DOMAIN validateContact(contactValues)
        /\ formView.fieldError[f] = "none"
        /\ contactTouched[g]
        /\ formView.fieldError[g] # "none"

\* C7: after a reset, from whatever state it was taken in, all values are
\* empty, all touched flags are false and submitted is false.
C7_ResetClears ==
    formLast.op = "reset" =>
        /\ contactValues = EmptyValues
        /\ contactTouched = NoneTouched
        /\ ~contactSubmitted

\* A reset was taken from a state holding a complete valid form.
C7_Witness ==
    /\ formLast.op = "reset"
    /\ formLast.valid
    /\ contactValues = EmptyValues

\* C21: a change of field f stores the typed value in values[f] and leaves
\* the other two values and the three touched flags as they were; a blur of
\* field f sets touched[f] and leaves the other touched flags, the three
\* values and submitted as they were.
C21_FrameConditions ==
    [][/\ formLast'.op = "change" =>
              /\ contactValues'[formLast'.field] = formLast'.value
              /\ \A g \in Fields \ {formLast'.field} :
                     contactValues'[g] = contactValues[g]
              /\ contactTouched' = contactTouched
       /\ formLast'.op = "blur" =>
              /\ contactTouched'[formLast'.field]
              /\ \A g \in Fields \ {formLast'.field} :
                     contactTouched'[g] = contactTouched[g]
              /\ contactValues' = contactValues
              /\ contactSubmitted' = contactSubmitted]_vars

\* A field was blurred in the Submitted state while another field was
\* untouched, and the session is still Submitted.
C21_Witness ==
    /\ formLast.op = "blur"
    /\ formLast.submitted
    /\ contactSubmitted
    /\ \E g \in Fields : ~contactTouched[g]

\* C23: in every state of the form session, whatever changes, blurs,
\* submits and resets led to it, submitted implies that the three values
\* are empty strings.
C23_SubmittedMeansEmpty ==
    contactSubmitted => contactValues = EmptyValues

\* The session is Submitted after a valid submit followed by blurs and an
\* invalid submit, all fields touched, and every value is empty.
C23_Witness ==
    /\ contactSubmitted
    /\ formLast.op = "blur"
    /\ contactTouched = AllTouched
    /\ contactValues = EmptyValues

----------------------------------------------------------------------------
(* Properties of the reveal controller *)

\* C8: reveal is monotonic: no step (an intersection notification, also one
\* for an element outside the band, a preference change, a re-run of the
\* controller) takes an element from revealed back to hidden.
C8_RevealMonotonic ==
    [][\A e \in RevealElements : revealed[e] => revealed'[e]]_vars

\* A notification has just been processed for an element that is revealed
\* and outside the band.
C8_Witness ==
    /\ revLast.op = "notify"
    /\ \E e \in revLast.els : revealed[e] /\ ~revIntersecting[e]

\* C9: once the controller has run with reducedMotion true, every
\* reveal-marked element is revealed, whether or not an intersection
\* notification was ever delivered; and when the environment reports reduced
\* motion (at start-up, where the tracker's value starts false and is then
\* updated, or from some later moment on), all elements end up revealed.
C9_ReducedMotionRevealsAll ==
    /\ []((phase = "mounted" /\ reducedMotion) =>
              \A e \in RevealElements : revealed[e])
    /\ (hasMatchMedia /\ <>[]envReduced) =>
           <>(\A e \in RevealElements : revealed[e])

\* The controller has just re-run with reducedMotion true, observation is
\* available, no notification was ever delivered, and an element outside
\* the band is revealed.
C9_Witness ==
    /\ revLast.op = "render"
    /\ reducedMotion
    /\ hasIO
    /\ ~revNotified
    /\ \E e \in RevealElements : revealed[e] /\ ~revIntersecting[e]

\* C10 as stated: a revealed element is never under observation, also after
\* the controller has re-run.
C10_AsStated ==
    \A e \in RevealElements : revealed[e] => e \notin revObserved

\* C19: right after a run of the reveal controller made without
\* IntersectionObserver and with reducedMotion false (at mount, or at the
\* re-render after the preference went back to no-preference), every
\* reveal-marked element is revealed and no element is observed or queued.
C19_NoObserverRevealsAll ==
    (/\ ~hasIO
     /\ ~reducedMotion
     /\ revLast.op \in {"mount", "render"}) =>
        /\ \A e \in RevealElements : revealed[e]
        /\ revObserved = {}
        /\ revQueue = {}

\* The first run was made without IntersectionObserver and with
\* reducedMotion false, and an element outside the band is revealed.
C19_Witness ==
    /\ ~hasIO
    /\ ~reducedMotion
    /\ revLast.op = "mount"
    /\ \E e \in RevealElements : revealed[e] /\ ~revIntersecting[e]

----------------------------------------------------------------------------
(* Properties of the scroll spy *)

\* The sections that meet the trigger band at scroll position y.
IntersectingIds(y) == {id \in Ids : IsIntersecting(id, y)}

\* C1: in every reachable state, on the observer path and on the fallback
\* path, activeId is one of the section ids home, about, work, contact; and
\* until the resolver has processed a first signal (an intersection
\* notification, a scroll event, or the evaluation the fallback makes when its
\* effect runs) it is the first section id.
C1_ActiveIdKnown ==
    /\ activeId \in Ids
    /\ ~spySignalled => activeId = SectionIds[1]

\* After notifications, scrolling and re-renders the last section is active
\* and recorded as the latest active id.
C1_Witness ==
    /\ spySignalled
    /\ spyLast.op = "render"
    /\ activeId = SectionIds[Len(SectionIds)]
    /\ latestActive = activeId

\* C2 as stated: right after the observer callback has processed a
\* notification, if any section meets the band then activeId is a section
\* that meets the band and no section meeting the band has a higher
\* intersection ratio, whether or not that section was in the notification.
\* It is stated for the callbacks that ran with latestActive up to date.
C2_AsStated ==
    (/\ hasIO
     /\ spyLast.op = "notify"
     /\ spyLast.synced
     /\ IntersectingIds(scrollY) # {}) =>
        /\ activeId \in IntersectingIds(scrollY)
        /\ \A id \in IntersectingIds(scrollY) :
               ~RatioLess(Entry(activeId, scrollY), Entry(id, scrollY))

\* C11 as stated: a notification or a scroll event whose winning section is
\* the activeId the resolver already holds issues no setActiveId, also when
\* latestActive has not yet been refreshed by the effect of the re-render.
C11_AsStated ==
    (/\ spyLast.op \in {"notify", "scroll"}
     /\ spyLast.winner = spyLast.before) => ~spyLast.wrote

\* The intersecting entries of the notification last processed.
LastVisibleEntries ==
    {e \in {Entry(id, scrollY) : id \in spyLast.ids} : e.isIntersecting}

\* C12: the section an observer callback selects is an intersecting entry of
\* its notification; no intersecting entry of the notification has a higher
\* intersection ratio, and none with the same ratio has its top edge closer
\* to the viewport top; when no entry intersects, nothing is selected.
C12_TieBreak ==
    spyLast.op = "notify" =>
        /\ spyLast.winner = "none" <=> LastVisibleEntries = {}
        /\ spyLast.winner # "none" =>
               \E w \in LastVisibleEntries :
                   /\ w.id = spyLast.winner
                   /\ \A e \in LastVisibleEntries :
                          /\ w.overlap * e.height >= e.overlap * w.height
                          /\ w.overlap * e.height = e.overlap * w.height =>
                                 Abs(w.top) <= Abs(e.top)

\* A notification carried two intersecting entries of the same, maximal
\* ratio at different distances, and a non-intersecting entry.
C12_Witness ==
    /\ spyLast.op = "notify"
    /\ \E a, b \in LastVisibleEntries :
           /\ a.id = spyLast.winner
           /\ b.id # a.id
           /\ a.overlap * b.height = b.overlap * a.height
           /\ Abs(a.top) < Abs(b.top)
    /\ \E id \in spyLast.ids : ~IsIntersecting(id, scrollY)

\* C13 as stated: on the fallback path, after the evaluation made at mount
\* and after every scroll event, activeId is the last section in list order
\* whose offsetTop is <= scrollY + 96, and the first section id when there is
\* none.
C13_AsStated ==
    (~hasIO /\ spyLast.op \in {"mount", "scroll"}) =>
        LET qualifying == {i \in DOMAIN SectionIds :
                              OffsetTop[SectionIds[i]] <= scrollY + HeaderOffset}
        IN  IF qualifying = {}
            THEN activeId = SectionIds[1]
            ELSE \E i \in qualifying :
                    /\ activeId = SectionIds[i]
                    /\ \A j \in qualifying : j <= i

----------------------------------------------------------------------------
(* Properties of validateContact *)

\* C14 as stated: with e = trim(values.email), the email error is "Please
\* enter your email." iff e is empty, "Please enter a valid email address."
\* iff e is not empty and not of the shape <non-space non-@>+ @
\* <non-space non-@>+ . <non-space>+, and there is no email error otherwise.
C14_AsStated ==
    validateOutput.returned =>
        LET e == trim(validateInput.email)
            err == IF "email" \in DOMAIN validateOutput.errors
                   THEN validateOutput.errors.email ELSE "none"
            shape ==
                \E i, j \in 1..Len(e) :
                    /\ e[i] = "@" /\ e[j] = "."
                    /\ 1 < i /\ i + 1 < j /\ j < Len(e)
                    /\ \A k \in 1..(i - 1) : e[k] \notin {" ", "@"}
                    /\ \A k \in (i + 1)..(j - 1) : e[k] \notin {" ", "@"}
                    /\ \A k \in (j + 1)..Len(e) : e[k] # " "
        IN  /\ err = "Please enter your email." <=> e = <<>>
            /\ err = "Please enter a valid email address." <=>
                   (e # <<>> /\ ~shape)
            /\ err = "none" <=> shape

\* C14 amended: the same, with the shape <non-space non-@>+ @
\* <non-space non-@>+ . <non-space non-@>+ : the part after the dot admits
\* no "@" either, so the whole address holds exactly one "@".
C14_EmailRule ==
    validateOutput.returned =>
        LET e == trim(validateInput.email)
            err == IF "email" \in DOMAIN validateOutput.errors
                   THEN validateOutput.errors.email ELSE "none"
            shape ==
                \E i, j \in 1..Len(e) :
                    /\ e[i] = "@" /\ e[j] = "."
                    /\ 1 < i /\ i + 1 < j /\ j < Len(e)
                    /\ \A k \in 1..(i - 1) : e[k] \notin {" ", "@"}
                    /\ \A k \in (i + 1)..(j - 1) : e[k] \notin {" ", "@"}
                    /\ \A k \in (j + 1)..Len(e) : e[k] \notin {" ", "@"}
        IN  /\ err = "Please enter your email." <=> e = <<>>
            /\ err = "Please enter a valid email address." <=>
                   (e # <<>> /\ ~shape)
            /\ err = "none" <=> shape

\* validateContact has rejected the address a@a.@ given with a space before
\* it, whose part after the dot is an "@".
C14_Witness ==
    /\ validateOutput.returned
    /\ validateInput.email = <<" ", "a", "@", "a", ".", "@">>
    /\ "email" \in DOMAIN validateOutput.errors
    /\ validateOutput.errors.email = "Please enter a valid email address."

\* C15: the message error is "Please write a message." iff the message is
\* empty after trimming, "Please write at least 20 characters." iff the
\* trimmed message has between 1 and 19 characters, and there is no message
\* error iff it has 20 or more; spaces at the ends are not counted, spaces
\* inside are.
C15_MessageRule ==
    validateOutput.returned =>
        LET m == validateInput.message
            err == IF "message" \in DOMAIN validateOutput.errors
                   THEN validateOutput.errors.message ELSE "none"
            inked == {k \in 1..Len(m) : m[k] # " "}
            first == CHOOSE k \in inked : \A l \in inked : k <= l
            last == CHOOSE k \in inked : \A l \in inked : l <= k
            count == IF inked = {} THEN 0 ELSE last - first + 1
        IN  /\ err = "Please write a message." <=> count = 0
            /\ err = "Please write at least 20 characters." <=>
                   (0 < count /\ count < 20)
            /\ err = "none" <=> count >= 20

\* A message of 20 or more characters, spaces at its ends included, was
\* rejected as shorter than 20.
C15_Witness ==
    /\ validateOutput.returned
    /\ Len(validateInput.message) >= 20
    /\ validateInput.message[1] = " "
    /\ "message" \in DOMAIN validateOutput.errors
    /\ validateOutput.errors.message = "Please write at least 20 characters."

\* C16: a call of validateContact returns an object that has an entry for a
\* field exactly when that field fails its own rule, whatever the other two
\* fields hold (the entry is the one validateContact gives for that field
\* alone); the name entry is "Please enter your name." and is there iff the
\* name is empty after trimming; the form is valid iff the object has no
\* entry; the empty input has all three entries.
C16_ResultEntries ==
    validateOutput.returned =>
        LET v == validateInput
            r == validateOutput.errors
            alone(f) == validateContact([EmptyValues EXCEPT ![f] = v[f]])
        IN  /\ DOMAIN r \subseteq Fields
            /\ \A f \in Fields :
                   /\ f \in DOMAIN r <=> f \in DOMAIN alone(f)
                   /\ f \in DOMAIN r => r[f] = alone(f)[f]
            /\ "name" \in DOMAIN r <=> \A k \in 1..Len(v.name) : v.name[k] = " "
            /\ "name" \in DOMAIN r => r.name = "Please enter your name."
            /\ isContactValid(v) <=> DOMAIN r = {}
            /\ v = EmptyValues => DOMAIN r = Fields

\* validateContact returned an entry for the email alone, the second of
\* the three fields, with a valid name and a valid message.
C16_Witness ==
    /\ validateOutput.returned
    /\ DOMAIN validateOutput.errors = {"email"}
    /\ validateInput.name # <<>>
    /\ Len(validateInput.message) >= 20

----------------------------------------------------------------------------
(* Properties of the effects' subscriptions *)

\* C17: every resolver (motion tracker, scroll spy, reveal controller,
\* resize handler) holds at most one live subscription in every state, also
\* right after its effect has re-run; and once App is unmounted no listener
\* or observer of any resolver is registered, whichever branch its effect
\* took.
C17_ScopedSubscriptions ==
    /\ \A r \in Resolvers : live[r] \in {0, 1}
    /\ phase = "unmounted" =>
           /\ \A r \in Resolvers : live[r] = 0
           /\ ~mqListener
           /\ ~scrollListener
           /\ spyObserved = {}
           /\ revObserved = {}

\* App was unmounted after re-renders that re-ran the scroll spy on the
\* fallback path and the reveal controller on its reduced-motion early
\* return, with the tracker subscribed.
C17_Witness ==
    /\ phase = "unmounted"
    /\ ~hasIO
    /\ hasMatchMedia
    /\ reducedMotion
    /\ latestActive = activeId
    /\ \A r \in Resolvers : live[r] = 0

\* C18: with window.matchMedia, while App is mounted, right after the
\* tracker's effect has run (the startup query) and right after its listener
\* has processed a change event, the tracker's reduced state equals the
\* environment's preference; without window.matchMedia the state is false in
\* every state and no listener is registered; and once App is unmounted no
\* step, a change of the preference included, alters the state.
C18_MotionTracking ==
    /\ []((/\ hasMatchMedia
           /\ phase = "mounted"
           /\ revLast.op \in {"mount", "change"}) => reduced = envReduced)
    /\ [](~hasMatchMedia =>
              /\ ~reduced
              /\ ~reducedMotion
              /\ ~mqListener
              /\ live.tracker = 0)
    /\ [][phase = "unmounted" =>
              (reduced' = reduced /\ ~mqListener /\ ~mqPending')]_vars

\* The tracker had followed the preference to reduce; App was unmounted, the
\* preference then changed back, and the state did not follow.
C18_Witness ==
    /\ phase = "unmounted"
    /\ hasMatchMedia
    /\ revLast.op = "media"
    /\ reduced
    /\ ~envReduced

----------------------------------------------------------------------------
(* Properties of the scroll spy on degraded inputs *)

\* C20: with an empty list of ids the scroll spy registers no observer and
\* no scroll listener and activeId stays "home"; an id without an element is
\* never observed, so never selected by an observer callback, whose choice
\* among the entries it is given is the one of highest ratio; and on the
\* fallback path every evaluation (the one of the effect, the one of a
\* scroll event) selects the last listed id that has an element with
\* offsetTop <= scrollY + 96, and the first listed id when there is none.
C20_DegradedInputs ==
    /\ spyIds = <<>> =>
           /\ spyObserved = {}
           /\ spyQueue = {}
           /\ ~scrollListener
           /\ activeId = "home"
    /\ spyObserved \subseteq domIds
    /\ (hasIO /\ phase = "mounted") =>
           spyObserved = {id \in domIds : \E i \in DOMAIN spyIds : spyIds[i] = id}
    /\ (spyLast.op = "notify" /\ spyLast.winner # "none") =>
           /\ spyLast.winner \in domIds
           /\ \A e \in LastVisibleEntries :
                  ~RatioLess(Entry(spyLast.winner, scrollY), e)
    /\ (/\ ~hasIO
        /\ spyIds # <<>>
        /\ spyLast.op \in {"mount", "render", "scroll"}) =>
           LET qualifying ==
                   {i \in DOMAIN spyIds :
                       /\ spyIds[i] \in domIds
                       /\ OffsetTop[spyIds[i]] <= scrollY + HeaderOffset}
           IN  IF qualifying = {}
               THEN spyLast.winner = spyIds[1]
               ELSE \E i \in qualifying :
                       /\ spyLast.winner = spyIds[i]
                       /\ \A j \in qualifying : j <= i

\* On the fallback path, on a page without the element of the third section,
\* a scroll event at a position past that section's place selected the
\* second section.
C20_Witness ==
    /\ ~hasIO
    /\ spyIds = SectionIds
    /\ SectionIds[3] \notin domIds
    /\ spyLast.op = "scroll"
    /\ OffsetTop[SectionIds[3]] <= scrollY + HeaderOffset
    /\ scrollY + HeaderOffset < OffsetTop[SectionIds[4]]
    /\ spyLast.winner = SectionIds[2]
    /\ activeId = SectionIds[2]

----------------------------------------------------------------------------
(* Properties of the mobile menu *)

----------------------------------------------------------------------------
(* Termination of the scroll spy's update cycle *)

\* C24: if from some moment on the page is at rest, then from some
\* later moment on activeId keeps one value and no handler calls
\* setActiveId, although every render re-creates the observer and every new
\* observer delivers its initial notification.
C24_Stabilises ==
    <>[](~scrolling) =>
        \E id \in Ids : <>[](activeId = id /\ ~spyLast.wrote)

\* After a re-render, the new observer's initial notification (an entry
\* for every section) selected the section that was already active and
\* rendered, a section other than the first, and called no setActiveId.
C24_Witness ==
    /\ hasIO
    /\ ~scrolling
    /\ spyLast.op = "notify"
    /\ spyLast.ids = Ids
    /\ spyLast.winner = activeId
    /\ spyLast.synced
    /\ ~spyLast.wrote
    /\ activeId = latestActive
    /\ activeId # SectionIds[1]

----------------------------------------------------------------------------
(* Liveness of the reveal controller *)

\* C25: whenever IntersectionObserver exists, the render's reducedMotion is
\* false and an element intersects the reveal band, that element is revealed
\* at some later moment, given that queued entries are delivered; a change of
\* the motion preference, which disconnects the observer and makes a new
\* one, does not prevent it.
C25_RevealLiveness ==
    \A e \in RevealElements :
        (hasIO /\ ~reducedMotion /\ revIntersecting[e]) ~> revealed[e]

\* A notification has revealed an element that had left the reveal band
\* again before the delivery, while another element is still hidden and
\* observed, and motion is not reduced.
C25_Witness ==
    /\ hasIO
    /\ ~reducedMotion
    /\ ~reduced
    /\ revLast.op = "notify"
    /\ \E e \in revLast.els : revealed[e] /\ ~revIntersecting[e]
    /\ \E e \in revObserved : ~revealed[e]

=============================================================================
